---------------------------- MODULE Spec2Model ----------------------------
(***************************************************************************)
(* Knowledge-graph ingestion of BeltaScrapper: the canonical name registry *)
(* (entity_normalizer.py), the graph merge (neo4j_manager.py) and the      *)
(* per-document pipeline with its worker pool (parse.py, utils.py).        *)
(*                                                                         *)
(* A name is a sequence of character codes: 0 is a space, 1..9 are the     *)
(* lowercase letters a..i and 11..19 their uppercase forms.                *)
(***************************************************************************)
EXTENDS Integers, Sequences, FiniteSets, TLC

None == <<-1>>            \* Python's None where a name or key is expected
NoDesc == 0               \* SQL NULL / None in the description column
NoSrc == "nosrc"          \* execute_graph called with src_filename=None

(***************************************************************************)
(* Strings.                                                                *)
(***************************************************************************)
Space == 0
UpperBase == 10

\* str.lower() on one character
LowerChar(c) == IF c > UpperBase THEN c - UpperBase ELSE c

Lower(s) == [i \in 1..Len(s) |-> LowerChar(s[i])]

RECURSIVE LStrip(_)
LStrip(s) == IF s # <<>> /\ Head(s) = Space THEN LStrip(Tail(s)) ELSE s

RECURSIVE RStrip(_)
RStrip(s) ==
    IF s # <<>> /\ s[Len(s)] = Space THEN RStrip(SubSeq(s, 1, Len(s) - 1)) ELSE s

\* str.strip()
Strip(s) == RStrip(LStrip(s))

\* EntityNameNormalizer.normalize_name: name.lower().strip()
normalize_name(name) == Strip(Lower(name))

\* str.split(): the maximal runs of non-space characters, as a sequence
RECURSIVE SplitFrom(_, _, _)
SplitFrom(s, i, word) ==
    IF i > Len(s) THEN (IF word = <<>> THEN <<>> ELSE <<word>>)
    ELSE IF s[i] = Space
         THEN (IF word = <<>> THEN <<>> ELSE <<word>>) \o SplitFrom(s, i + 1, <<>>)
         ELSE SplitFrom(s, i + 1, Append(word, s[i]))

Split(s) == SplitFrom(s, 1, <<>>)

\* set(name.split())
TokenSet(s) == {Split(s)[i] : i \in 1..Len(Split(s))}

MinSubsetLen == 3

\* a subset test in one direction only: tokens1.issubset(tokens2)
is_subset_match_one_way(name1, name2) ==
    LET tokens1 == TokenSet(name1)
        tokens2 == TokenSet(name2)
        shorter == IF Len(name1) < Len(name2) THEN name1 ELSE name2
    IN  /\ tokens1 \subseteq tokens2
        /\ Len(shorter) > MinSubsetLen

\* EntityNameNormalizer._is_subset_match
is_subset_match(name1, name2) ==
    LET tokens1 == TokenSet(name1)
        tokens2 == TokenSet(name2)
        shorter == IF Len(name1) < Len(name2) THEN name1 ELSE name2
    IN  /\ (tokens1 \subseteq tokens2 \/ tokens2 \subseteq tokens1)
        /\ Len(shorter) > MinSubsetLen

(***************************************************************************)
(* difflib.SequenceMatcher(None, a, b).ratio() for strings shorter than    *)
(* 200 characters (no junk, no "popular" elements): the longest matching   *)
(* block, earliest in a and then earliest in b, and recursively the        *)
(* pieces to its left and to its right.  The ratio is 2*M/T, kept as the   *)
(* pair <<2*M, T>>.                                                        *)
(***************************************************************************)
\* length of the common run of a from i and b from j inside the windows
RECURSIVE RunLen(_, _, _, _, _, _)
RunLen(a, b, i, j, ahi, bhi) ==
    IF i <= ahi /\ j <= bhi /\ a[i] = b[j]
    THEN 1 + RunLen(a, b, i + 1, j + 1, ahi, bhi)
    ELSE 0

\* find_longest_match(alo, ahi, blo, bhi), windows given as closed intervals
LongestMatch(a, b, alo, ahi, blo, bhi) ==
    LET cand == {<<i, j>> \in (alo..ahi) \X (blo..bhi) : a[i] = b[j]}
        size(p) == RunLen(a, b, p[1], p[2], ahi, bhi)
    IN  IF cand = {} THEN <<alo, blo, 0>>
        ELSE LET best == CHOOSE p \in cand :
                     \A q \in cand :
                         \/ size(p) > size(q)
                         \/ /\ size(p) = size(q)
                            /\ (p[1] < q[1] \/ (p[1] = q[1] /\ p[2] <= q[2]))
             IN  <<best[1], best[2], size(best)>>

\* the sum of the sizes of get_matching_blocks()
RECURSIVE Matches(_, _, _, _, _, _)
Matches(a, b, alo, ahi, blo, bhi) ==
    IF alo > ahi \/ blo > bhi THEN 0
    ELSE LET m == LongestMatch(a, b, alo, ahi, blo, bhi)
         IN  IF m[3] = 0 THEN 0
             ELSE m[3]
                  + Matches(a, b, alo, m[1] - 1, blo, m[2] - 1)
                  + Matches(a, b, m[1] + m[3], ahi, m[2] + m[3], bhi)

\* ratio() as <<numerator, denominator>>; two empty strings give 1.0
Ratio(a, b) ==
    IF Len(a) + Len(b) = 0 THEN <<1, 1>>
    ELSE <<2 * Matches(a, b, 1, Len(a), 1, Len(b)), Len(a) + Len(b)>>

\* the default threshold 0.8 of get_similar_entity, as a fraction
ThresholdNum == 4
ThresholdDen == 5

RatioGeq(r, n, d) == r[1] * d >= n * r[2]
RatioGt(r1, r2) == r1[1] * r2[2] > r2[1] * r1[2]


(***************************************************************************)
(* The names the extraction backend returns in this model, and the values  *)
(* of _is_subset_match and of ratio() on their normalized forms, computed  *)
(* once.                                                                   *)
(***************************************************************************)
nA == <<6, 7, 8, 9, 0, 1, 2, 3, 4, 8>>      \* "fghi abcdh"
nB == <<6, 7, 8, 9, 0, 1, 2, 3, 4, 5>>      \* "fghi abcde"
nC == <<1, 2, 3, 4, 5>>                     \* "abcde"
nCu == <<0, 11, 12, 13, 14, 15, 0>>         \* " ABCDE "
nD == <<6, 7, 8, 9>>                        \* "fghi"
nE == <<1, 2, 3, 4, 6>>                     \* "abcdf"
nF == <<6, 2, 3, 4, 5>>                     \* "fbcde"

RawNames == {nA, nB, nC, nCu, nD}

\* two names that are equally close to "abcde" and not close to each other
TieNames == {nE, nF}

Keys == {normalize_name(x) : x \in RawNames \cup TieNames}

\* (f @@ g is evaluated to an explicit table)
SubsetTable == [a \in Keys, b \in Keys |-> is_subset_match(a, b)] @@ <<>>
RatioTable == [a \in Keys, b \in Keys |-> Ratio(a, b)] @@ <<>>

(***************************************************************************)
(* get_similar_entity on a cache.  entity_cache is a Python set of str:    *)
(* its iteration order is the hash order, which differs from run to run,   *)
(* so the loop's "first subset match" and "first best ratio" are each a    *)
(* choice among the candidates.  The operator gives every result the call  *)
(* can return; None stands for no match.                                   *)
(***************************************************************************)
SubsetCandidates(n, c) == {s \in c : SubsetTable[n, s]}

FuzzyCandidates(n, c, tn, td) ==
    {s \in c : /\ RatioGeq(RatioTable[n, s], tn, td)
               /\ RatioGt(RatioTable[n, s], <<0, 1>>)
               /\ \A t \in c :
                      RatioGeq(RatioTable[n, t], tn, td)
                          => ~RatioGt(RatioTable[n, t], RatioTable[n, s])}

\* a lookup that compares the name as it was given, without normalize_name
get_similar_entity_as_given(name, c, tn, td) ==
    LET subset == {s \in c : is_subset_match(name, s)}
        fuzzy == {s \in c : /\ RatioGeq(Ratio(name, s), tn, td)
                            /\ RatioGt(Ratio(name, s), <<0, 1>>)
                            /\ \A t \in c :
                                   RatioGeq(Ratio(name, t), tn, td)
                                       => ~RatioGt(Ratio(name, t), Ratio(name, s))}
    IN  IF name \in c THEN {name}
        ELSE IF subset # {} THEN subset
        ELSE IF fuzzy # {} THEN fuzzy
        ELSE {None}

\* a lookup that prefers the best fuzzy match to a subset match
get_similar_entity_fuzzy_first(name, c, tn, td) ==
    LET normalized_name == normalize_name(name)
    IN  IF normalized_name \in c THEN {normalized_name}
        ELSE IF FuzzyCandidates(normalized_name, c, tn, td) # {}
             THEN FuzzyCandidates(normalized_name, c, tn, td)
             ELSE IF SubsetCandidates(normalized_name, c) # {}
                  THEN SubsetCandidates(normalized_name, c)
                  ELSE {None}

get_similar_entity(name, c, tn, td) ==
    LET normalized_name == normalize_name(name)
    IN  IF normalized_name \in c THEN {normalized_name}
        ELSE IF SubsetCandidates(normalized_name, c) # {}
             THEN SubsetCandidates(normalized_name, c)
             ELSE IF FuzzyCandidates(normalized_name, c, tn, td) # {}
                  THEN FuzzyCandidates(normalized_name, c, tn, td)
                  ELSE {None}

(***************************************************************************)
(* Documents.  The extraction backend is a black box: a submitted file     *)
(* carries the fragment it extracts to.                                    *)
(***************************************************************************)
\* schemas.Entity / schemas.Relationship
Entity(n, l, d) == [name |-> n, label |-> l, description |-> d]
\* fields: the property fields the backend set (date is required, reasoning and
\* context have defaults and may be left unset); values are abstract texts
RelationshipWith(s, t, ty, fs) == [source |-> s, target |-> t, type |-> ty, fields |-> fs]
Relationship(s, t, ty) == RelationshipWith(s, t, ty, [date |-> 1])

\* schemas.KnowledgeGraph values the backend returns
Fragment(f) ==
    CASE f = "G1" -> [entities |-> <<Entity(nC, "Person", 1), Entity(nD, "Role", NoDesc)>>,
                      relationships |-> <<RelationshipWith(nC, nD, "HELD",
                                                         [date |-> 1, context |-> 1])>>]
      [] f = "G2" -> [entities |-> <<Entity(nCu, "Organization", 2), Entity(nD, "Role", NoDesc)>>,
                      relationships |-> <<RelationshipWith(nCu, nD, "HELD", [date |-> 2])>>]
      [] f = "G3" -> [entities |-> <<Entity(nB, "Person", NoDesc), Entity(nC, "Person", NoDesc)>>,
                      relationships |-> <<Relationship(nB, nC, "MET")>>]
      [] f = "F1" -> [entities |-> <<Entity(nA, "Person", NoDesc), Entity(nB, "Person", NoDesc),
                                     Entity(nC, "Person", NoDesc)>>,
                      relationships |-> <<Relationship(nB, nC, "MET")>>]
      [] f = "T1" -> [entities |-> <<Entity(nE, "Person", NoDesc), Entity(nF, "Person", NoDesc),
                                     Entity(nC, "Person", NoDesc)>>,
                      relationships |-> <<Relationship(nE, nF, "MET")>>]
      [] f = "T2" -> [entities |-> <<Entity(nF, "Person", NoDesc), Entity(nE, "Person", NoDesc),
                                     Entity(nC, "Person", NoDesc)>>,
                      relationships |-> <<Relationship(nF, nE, "MET")>>]

\* a line of the file list: the file name is the source id of the merge
Submission(f, s) == [frag |-> f, src |-> s]

Subs == {Submission("G1", "doc1"), Submission("G2", "doc2"),
         Submission("G2", NoSrc), Submission("G3", "doc1")}

SubsSeq == {Submission("G1", "doc1"), Submission("G1", "doc2"),
            Submission("F1", "doc1"), Submission("F1", NoSrc)}

SubsTie == {Submission("T1", "doc1"), Submission("T2", "doc1"),
            Submission("T1", "doc2"), Submission("T2", "doc2")}

MaxDocs == 2          \* files in one batch
MaxFaults == 1        \* store / backend errors injected in one run

Workers == {"w1", "w2"}

(***************************************************************************)
(* State.                                                                  *)
(***************************************************************************)
VARIABLES
    mode,       \* "threads": load_from_list (thread_map); "procs": apply_to_all_files (Pool)
    batch,      \* the submitted files, in order
    next,       \* index of the next file the pool hands out
    status,     \* per file: "pending", "running", "done", "failed", "notfound"
    store,      \* table entities of entities.db: normalized name -> description
    cache,      \* entity_cache of neo.entity_normalizer, one per process
    nodes,      \* graph nodes [name, label, by]; <<name, by>> is the node's identity
    edges,      \* graph edges [a, type, b, source_files] between node identities
    log,        \* what the loggers reported, [doc, kind, k]
    faults,     \* errors injected so far
    cur,        \* per worker: index of the file it processes, 0 when idle
    pc,         \* per worker: position inside process_file / execute_graph
    frag,       \* per worker: graph_data
    idx,        \* per worker: loop index over entities / relationships
    mapping,    \* per worker: name_mapping of normalize_entity_names
    snap,       \* per worker: size of the cache when the set iterator was created
    res,        \* per worker: similar_name
    eprops,     \* graph edges' properties: edge -> [props, created_at, updated_at]
    val,        \* query text: the value, label or type handed to the query builder
    qtext,      \* query text: what the builder put into the query, [op, text]
    threads,    \* RECALLOGUE: table threads, rows [id, name, user_id, created_at]
    clock,      \* RECALLOGUE: datetime.utcnow()
    last        \* RECALLOGUE: the last call of thread_service, [op, id]

\* the chat threads of RECALLOGUE: a service of its own, untouched by the ingestion
tvars == <<threads, clock, last>>

\* the text of the queries: built from the fragment alone, no store is touched
qvars == <<val, qtext>>

vars == <<mode, batch, next, status, store, cache, nodes, edges, log, faults,
          cur, pc, frag, idx, mapping, snap, res, eprops, qvars, tvars>>

shared == <<store, cache, nodes, edges>>

EmptyMap == [x \in {} |-> None]
NoValue == [t |-> "unset", s |-> <<>>, n |-> 0]
NoText == [op |-> "none", text |-> <<>>]
EmptyFrag == [entities |-> <<>>, relationships |-> <<>>]

\* threads of one process share neo.entity_normalizer; pool processes each own one
ProcOf(w) == IF mode = "threads" THEN "w1" ELSE w
Cache(w) == cache[ProcOf(w)]

NodeId(n) == <<n.name, n.by>>
NodesNamed(x) == {n \in nodes : n.name = x}

LogRec(w, kind, k) == [doc |-> cur[w], kind |-> kind, k |-> k]

TypeOK ==
    /\ mode \in {"threads", "procs"}
    /\ next \in 1..(Len(batch) + 1)
    /\ \A d \in DOMAIN status :
           status[d] \in {"pending", "running", "done", "failed", "notfound"}
    /\ \A w \in Workers : cache[w] \subseteq DOMAIN store
    /\ faults \in 0..MaxFaults
    /\ \A w \in Workers : cur[w] \in 0..Len(batch)
    /\ \A e \in edges : \E a, b \in nodes : NodeId(a) = e.a /\ NodeId(b) = e.b

InitLocal ==
    /\ next = 1
    /\ status = [d \in 1..Len(batch) |-> "pending"]
    /\ store = EmptyMap
    /\ cache = [w \in Workers |-> {}]
    /\ nodes = {}
    /\ edges = {}
    /\ log = {}
    /\ faults = 0
    /\ cur = [w \in Workers |-> 0]
    /\ pc = [w \in Workers |-> "idle"]
    /\ frag = [w \in Workers |-> EmptyFrag]
    /\ idx = [w \in Workers |-> 0]
    /\ mapping = [w \in Workers |-> EmptyMap]
    /\ snap = [w \in Workers |-> 0]
    /\ res = [w \in Workers |-> None]
    /\ eprops = EmptyMap
    /\ val = NoValue
    /\ qtext = NoText
    /\ threads = {}
    /\ clock = 0
    /\ last = [op |-> "none", id |-> 0]

\* EntityNameNormalizer.__init__ on a fresh entities.db, then a batch is submitted
Init ==
    /\ mode \in {"threads", "procs"}
    /\ batch \in [1..MaxDocs -> Subs]
    /\ InitLocal

(***************************************************************************)
(* process_file: leaving a document.                                       *)
(***************************************************************************)
Release(w) ==
    /\ cur' = [cur EXCEPT ![w] = 0]
    /\ pc' = [pc EXCEPT ![w] = "idle"]
    /\ frag' = [frag EXCEPT ![w] = EmptyFrag]
    /\ idx' = [idx EXCEPT ![w] = 0]
    /\ mapping' = [mapping EXCEPT ![w] = EmptyMap]
    /\ snap' = [snap EXCEPT ![w] = 0]
    /\ res' = [res EXCEPT ![w] = None]

\* a handler that logs and raises again: the pool hands out no further file
ExceptHandlerReraise(w) ==
    /\ status' = [status EXCEPT ![cur[w]] = "failed"]
    /\ log' = log \cup {LogRec(w, "error", 0)}
    /\ next' = Len(batch) + 1
    /\ Release(w)
    /\ UNCHANGED <<tvars, qvars, eprops, mode, batch, store, cache, nodes, edges>>

\* the except clause of process_file: log the error and return
ExceptHandler(w) ==
    /\ status' = [status EXCEPT ![cur[w]] = "failed"]
    /\ log' = log \cup {LogRec(w, "error", 0)}
    /\ Release(w)
    /\ UNCHANGED <<tvars, qvars, eprops, mode, batch, next, store, cache, nodes, edges>>

\* process_file: the file list hands the next file to an idle worker
StartDoc(w) ==
    /\ pc[w] = "idle"
    /\ next <= Len(batch)
    /\ cur' = [cur EXCEPT ![w] = next]
    /\ next' = next + 1
    /\ status' = [status EXCEPT ![next] = "running"]
    /\ pc' = [pc EXCEPT ![w] = "extract"]
    /\ UNCHANGED <<tvars, qvars, eprops, mode, batch, store, cache, nodes, edges, log, faults,
                   frag, idx, mapping, snap, res>>

\* process_file: os.path.exists fails, "File not found", return
StartMissing(w) ==
    /\ pc[w] = "idle"
    /\ next <= Len(batch)
    /\ faults < MaxFaults
    /\ faults' = faults + 1
    /\ next' = next + 1
    /\ status' = [status EXCEPT ![next] = "notfound"]
    /\ log' = log \cup {[doc |-> next, kind |-> "notfound", k |-> 0]}
    /\ UNCHANGED <<tvars, qvars, eprops, mode, batch, store, cache, nodes, edges,
                   cur, pc, frag, idx, mapping, snap, res>>

\* process_file: read, detect names, context lookup, get_KG_from_text
Extract(w) ==
    /\ pc[w] = "extract"
    /\ frag' = [frag EXCEPT ![w] = Fragment(batch[cur[w]].frag)]
    /\ idx' = [idx EXCEPT ![w] = 1]
    /\ mapping' = [mapping EXCEPT ![w] = EmptyMap]
    /\ pc' = [pc EXCEPT ![w] = "resolve"]
    /\ UNCHANGED <<tvars, qvars, eprops, mode, batch, next, status, store, cache, nodes, edges, log,
                   faults, cur, snap, res>>

\* a failed extraction after which process_file calls the backend again
ExtractFailRetry(w) ==
    /\ pc[w] = "extract"
    /\ faults < MaxFaults
    /\ faults' = faults + 1
    /\ log' = log \cup {LogRec(w, "error", 0)}
    /\ UNCHANGED <<tvars, qvars, eprops, mode, batch, next, status, store, cache, nodes, edges,
                   cur, pc, frag, idx, mapping, snap, res>>

\* any exception or unusable result before execute_graph
ExtractFail(w) ==
    /\ pc[w] = "extract"
    /\ faults < MaxFaults
    /\ faults' = faults + 1
    /\ ExceptHandler(w)

(***************************************************************************)
(* normalize_entity_names.                                                 *)
(***************************************************************************)
CurEntity(w) == frag[w].entities[idx[w]]

\* a renaming of the entity names that leaves the relationship endpoints as extracted
Renamed_entities_only(g, m) ==
    [entities |-> [k \in DOMAIN g.entities |->
                     IF g.entities[k].name \in DOMAIN m
                     THEN [g.entities[k] EXCEPT !.name = m[g.entities[k].name]]
                     ELSE g.entities[k]],
     relationships |-> g.relationships]

\* lines 189-199: entity names and relationship endpoints through name_mapping
Renamed(g, m) ==
    [entities |-> [k \in DOMAIN g.entities |->
                     IF g.entities[k].name \in DOMAIN m
                     THEN [g.entities[k] EXCEPT !.name = m[g.entities[k].name]]
                     ELSE g.entities[k]],
     relationships |-> [k \in DOMAIN g.relationships |->
                     [g.relationships[k] EXCEPT
                        !.source = IF @ \in DOMAIN m THEN m[@] ELSE @,
                        !.target = IF @ \in DOMAIN m THEN m[@] ELSE @]]]

\* the end of one pass of the entity loop; after the last one the renaming,
\* then execute_graph opens the session
EndEntity(w, m) ==
    /\ mapping' = [mapping EXCEPT ![w] = m]
    /\ res' = [res EXCEPT ![w] = None]
    /\ snap' = [snap EXCEPT ![w] = 0]
    /\ IF idx[w] < Len(frag[w].entities)
       THEN /\ idx' = [idx EXCEPT ![w] = idx[w] + 1]
            /\ pc' = [pc EXCEPT ![w] = "resolve"]
            /\ frag' = frag
       ELSE /\ idx' = [idx EXCEPT ![w] = 1]
            /\ pc' = [pc EXCEPT ![w] = "node"]
            /\ frag' = [frag EXCEPT ![w] = Renamed(frag[w], m)]

\* get_similar_entity, lines 70-79: the exact check, else the set iterator is created
ResolveBegin(w) ==
    /\ pc[w] = "resolve"
    /\ LET n == normalize_name(CurEntity(w).name)
       IN  IF n \in Cache(w)
           THEN /\ res' = [res EXCEPT ![w] = n]
                /\ pc' = [pc EXCEPT ![w] = "apply"]
                /\ snap' = snap
           ELSE /\ snap' = [snap EXCEPT ![w] = Cardinality(Cache(w))]
                /\ pc' = [pc EXCEPT ![w] = "iter"]
                /\ res' = res
    /\ UNCHANGED <<tvars, qvars, eprops, mode, batch, next, status, store, cache, nodes, edges, log,
                   faults, cur, frag, idx, mapping>>

\* get_similar_entity, lines 79-103: the loop ran over an unchanged set
ResolveEnd(w) ==
    /\ pc[w] = "iter"
    /\ Cardinality(Cache(w)) = snap[w]
    /\ \E r \in get_similar_entity(CurEntity(w).name, Cache(w), ThresholdNum, ThresholdDen) :
           res' = [res EXCEPT ![w] = r]
    /\ pc' = [pc EXCEPT ![w] = "apply"]
    /\ UNCHANGED <<tvars, qvars, eprops, mode, batch, next, status, store, cache, nodes, edges, log,
                   faults, cur, frag, idx, mapping, snap>>

\* another thread added to the set during the loop: RuntimeError ("Set changed size
\* during iteration") leaves normalize_entity_names and execute_graph
ResolveRaise(w) ==
    /\ pc[w] = "iter"
    /\ Cardinality(Cache(w)) # snap[w]
    /\ faults' = faults
    /\ ExceptHandler(w)

\* an update without the guard on the stored description
add_entity_description_overwrite(st, name, description) ==
    LET key == normalize_name(name)
    IN  IF key \in DOMAIN st THEN [st EXCEPT ![key] = description] ELSE st

\* add_entity_description: UPDATE ... WHERE name = ? AND description IS NULL
add_entity_description(st, name, description) ==
    LET key == normalize_name(name)
    IN  IF key \in DOMAIN st /\ st[key] = NoDesc
        THEN [st EXCEPT ![key] = description]
        ELSE st

\* an insert that replaces the row of an existing name (INSERT OR REPLACE)
add_entity_to_db_replace(st, name, description) ==
    (normalize_name(name) :> description) @@ st

\* add_entity_to_db, the statement: INSERT OR IGNORE INTO entities
add_entity_to_db(st, name, description) ==
    LET normalized_name == normalize_name(name)
    IN  IF normalized_name \in DOMAIN st THEN st
        ELSE (normalized_name :> description) @@ st

\* normalize_entity_names, lines 177-182: a similar name was found
ApplyMatch(w) ==
    /\ pc[w] = "apply"
    /\ res[w] # None
    /\ store' = IF CurEntity(w).description # NoDesc
                THEN add_entity_description(store, res[w], CurEntity(w).description)
                ELSE store
    /\ EndEntity(w, (CurEntity(w).name :> res[w]) @@ mapping[w])
    /\ UNCHANGED <<tvars, qvars, eprops, mode, batch, next, status, cache, nodes, edges, log, faults, cur>>

\* normalize_entity_names, lines 183-187: a new name; add_entity_to_db commits the
\* row and adds the key to the cache
ApplyAdd(w) ==
    /\ pc[w] = "apply"
    /\ res[w] = None
    /\ store' = add_entity_to_db(store, CurEntity(w).name, CurEntity(w).description)
    /\ cache' = [cache EXCEPT ![ProcOf(w)] = @ \cup {normalize_name(CurEntity(w).name)}]
    /\ EndEntity(w, (CurEntity(w).name :> normalize_name(CurEntity(w).name)) @@ mapping[w])
    /\ UNCHANGED <<tvars, qvars, eprops, mode, batch, next, status, nodes, edges, log, faults, cur>>

\* add_entity_to_db, lines 131-132: the store raised, the error is logged
ApplyAddFail(w) ==
    /\ pc[w] = "apply"
    /\ res[w] = None
    /\ faults < MaxFaults
    /\ faults' = faults + 1
    /\ log' = log \cup {LogRec(w, "add_err", idx[w])}
    /\ EndEntity(w, (CurEntity(w).name :> normalize_name(CurEntity(w).name)) @@ mapping[w])
    /\ UNCHANGED <<tvars, qvars, eprops, mode, batch, next, status, store, cache, nodes, edges, cur>>

(***************************************************************************)
(* execute_graph: the graph store.  Each session.run is one auto-commit    *)
(* transaction.  A node MERGE on a pattern no uniqueness constraint covers *)
(* is a read followed by a create, not atomic against other transactions;  *)
(* a relationship MERGE between matched nodes locks both nodes.            *)
(***************************************************************************)
\* create_indexes: CREATE CONSTRAINT ... FOR (n:Entity) REQUIRE n.name IS UNIQUE
ConstraintLabel == "Entity"

UniqueViolation(name, label) ==
    /\ label = ConstraintLabel
    /\ \E n \in nodes : n.label = ConstraintLabel /\ n.name = name

Finish(w) ==
    /\ status' = [status EXCEPT ![cur[w]] = "done"]
    /\ Release(w)

\* the end of one pass of the node loop
EndNode(w) ==
    IF idx[w] < Len(frag[w].entities)
    THEN /\ idx' = [idx EXCEPT ![w] = idx[w] + 1]
         /\ pc' = [pc EXCEPT ![w] = "node"]
         /\ UNCHANGED <<status, cur, frag, mapping, snap, res>>
    ELSE IF Len(frag[w].relationships) > 0
         THEN /\ idx' = [idx EXCEPT ![w] = 1]
              /\ pc' = [pc EXCEPT ![w] = "rel"]
              /\ UNCHANGED <<status, cur, frag, mapping, snap, res>>
         ELSE Finish(w)

\* the end of one pass of the relationship loop
EndRel(w) ==
    IF idx[w] < Len(frag[w].relationships)
    THEN /\ idx' = [idx EXCEPT ![w] = idx[w] + 1]
         /\ UNCHANGED <<status, cur, pc, frag, mapping, snap, res>>
    ELSE Finish(w)

\* a MERGE that sets the label on a match as well (ON MATCH SET n:`label`)
NodeMatchRelabel(w) ==
    /\ pc[w] = "node"
    /\ IF NodesNamed(CurEntity(w).name) # {}
       THEN /\ log' = log \cup {LogRec(w, "entity_ok", idx[w])}
            /\ nodes' = {IF n.name = CurEntity(w).name
                         THEN [n EXCEPT !.label = CurEntity(w).label] ELSE n : n \in nodes}
            /\ EndNode(w)
       ELSE /\ pc' = [pc EXCEPT ![w] = "create"]
            /\ UNCHANGED <<nodes, log, status, cur, frag, idx, mapping, snap, res>>
    /\ UNCHANGED <<tvars, qvars, eprops, mode, batch, next, store, cache, edges, faults>>

\* MERGE (n {name: $name}): the read.  A match sets nothing (ON CREATE only).
NodeMatch(w) ==
    /\ pc[w] = "node"
    /\ IF NodesNamed(CurEntity(w).name) # {}
       THEN /\ log' = log \cup {LogRec(w, "entity_ok", idx[w])}
            /\ EndNode(w)
       ELSE /\ pc' = [pc EXCEPT ![w] = "create"]
            /\ UNCHANGED <<log, status, cur, frag, idx, mapping, snap, res>>
    /\ UNCHANGED <<tvars, qvars, eprops, mode, batch, next, store, cache, nodes, edges, faults>>

\* MERGE (n {name: $name}) ON CREATE SET n:`label`: the create
NodeCreate(w) ==
    /\ pc[w] = "create"
    /\ IF UniqueViolation(CurEntity(w).name, CurEntity(w).label)
       THEN /\ log' = log \cup {LogRec(w, "entity_err", idx[w])}
            /\ nodes' = nodes
       ELSE /\ log' = log \cup {LogRec(w, "entity_ok", idx[w])}
            /\ nodes' = nodes \cup {[name |-> CurEntity(w).name,
                                     label |-> CurEntity(w).label,
                                     by |-> cur[w]]}
    /\ EndNode(w)
    /\ UNCHANGED <<tvars, qvars, eprops, mode, batch, next, store, cache, edges, faults>>

\* lines 154-155: session.run raised, "Failed to create entity"
NodeFail(w) ==
    /\ pc[w] \in {"node", "create"}
    /\ faults < MaxFaults
    /\ faults' = faults + 1
    /\ log' = log \cup {LogRec(w, "entity_err", idx[w])}
    /\ EndNode(w)
    /\ UNCHANGED <<tvars, qvars, eprops, mode, batch, next, store, cache, nodes, edges>>

CurRel(w) == frag[w].relationships[idx[w]]
SrcOf(w) == batch[cur[w]].src

InList(x, sf) == \E k \in 1..Len(sf) : sf[k] = x

\* ON CREATE SET r.source_files = CASE WHEN $src_file IS NULL THEN [] ELSE [$src_file] END
on_create_source_files(src) == IF src = NoSrc THEN <<>> ELSE <<src>>

\* a merge that appends without looking for the id in the list
on_match_always_append(sf, src) == IF src = NoSrc THEN sf ELSE Append(sf, src)

\* ON MATCH SET r.source_files = CASE ... END
on_match_source_files(sf, src) ==
    IF src = NoSrc THEN sf
    ELSE IF InList(src, sf) THEN sf
    ELSE Append(sf, src)

EdgeKey(e) == <<e.a, e.type, e.b>>

\* a query that merges the whole pattern: an edge also between names without a node
merge_relationship_unmatched(es, rel, src) ==
    LET ends(x) == IF NodesNamed(x) = {} THEN {<<x, 0>>} ELSE {NodeId(n) : n \in NodesNamed(x)}
        pairs == {<<a, rel.type, b>> : a \in ends(rel.source), b \in ends(rel.target)}
        kept == {e \in es : EdgeKey(e) \notin pairs}
        matched == {[e EXCEPT !.source_files = on_match_source_files(@, src)] :
                       e \in {x \in es : EdgeKey(x) \in pairs}}
        created == {[a |-> p[1], type |-> p[2], b |-> p[3],
                     source_files |-> on_create_source_files(src)] :
                       p \in {q \in pairs : \A e \in es : EdgeKey(e) # q}}
    IN  kept \cup matched \cup created

\* MATCH (a {name: $source}) MATCH (b {name: $target}) MERGE (a)-[r:`type`]->(b) ...
merge_relationship(es, rel, src) ==
    LET pairs == {<<NodeId(a), rel.type, NodeId(b)>> :
                     a \in NodesNamed(rel.source), b \in NodesNamed(rel.target)}
        kept == {e \in es : EdgeKey(e) \notin pairs}
        matched == {[e EXCEPT !.source_files = on_match_source_files(@, src)] :
                       e \in {x \in es : EdgeKey(x) \in pairs}}
        created == {[a |-> p[1], type |-> p[2], b |-> p[3],
                     source_files |-> on_create_source_files(src)] :
                       p \in {q \in pairs : \A e \in es : EdgeKey(e) # q}}
    IN  kept \cup matched \cup created

\* _get_relationship_properties: the fields that were set, without source, target, type
get_relationship_properties(rel) == rel.fields

\* timestamp(): the time of the transaction; the relationship queries that ran are counted
NoTime == 0
Now == Cardinality({r \in log : r.kind = "rel_ok"}) + 1

\* r += $props: the supplied keys take the new value, the other keys stay
PlusEquals(old, props) ==
    [k \in DOMAIN old \cup DOMAIN props |-> IF k \in DOMAIN props THEN props[k] ELSE old[k]]

\* a merge that replaces the property map (r = $props) and stamps created_at again
merge_properties_replace(ep, es, rel, now) ==
    LET pairs == {<<NodeId(a), rel.type, NodeId(b)>> :
                     a \in NodesNamed(rel.source), b \in NodesNamed(rel.target)}
    IN  [p \in DOMAIN ep \cup pairs |->
            IF p \notin pairs THEN ep[p]
            ELSE [props |-> get_relationship_properties(rel),
                  created_at |-> now, updated_at |-> now]]

\* ON CREATE SET r += $props, r.created_at = timestamp()
\* ON MATCH SET r += $props, r.updated_at = timestamp()
merge_properties(ep, es, rel, now) ==
    LET pairs == {<<NodeId(a), rel.type, NodeId(b)>> :
                     a \in NodesNamed(rel.source), b \in NodesNamed(rel.target)}
    IN  [p \in DOMAIN ep \cup pairs |->
            IF p \notin pairs THEN ep[p]
            ELSE IF \E e \in es : EdgeKey(e) = p
                 THEN [ep[p] EXCEPT !.props = PlusEquals(@, get_relationship_properties(rel)),
                                    !.updated_at = now]
                 ELSE [props |-> get_relationship_properties(rel),
                       created_at |-> now, updated_at |-> NoTime]]

\* lines 158-188: the query ran (also when a MATCH found no node), and
\* "Created/merged relationship" is logged
RelMerge(w) ==
    /\ pc[w] = "rel"
    /\ edges' = merge_relationship(edges, CurRel(w), SrcOf(w))
    /\ eprops' = merge_properties(eprops, edges, CurRel(w), Now)
    /\ log' = log \cup {LogRec(w, "rel_ok", idx[w])}
    /\ EndRel(w)
    /\ UNCHANGED <<tvars, qvars, mode, batch, next, store, cache, nodes, faults>>

\* lines 189-190: session.run raised, "Failed to create relationship"
RelFail(w) ==
    /\ pc[w] = "rel"
    /\ faults < MaxFaults
    /\ faults' = faults + 1
    /\ log' = log \cup {LogRec(w, "rel_err", idx[w])}
    /\ EndRel(w)
    /\ UNCHANGED <<tvars, qvars, eprops, mode, batch, next, store, cache, nodes, edges>>

\* an exception that leaves execute_graph (sqlite3.connect, driver.session, a
\* timeout of the driver): caught by process_file
Abort(w) ==
    /\ pc[w] \in {"resolve", "iter", "apply", "node", "create", "rel"}
    /\ faults < MaxFaults
    /\ faults' = faults + 1
    /\ ExceptHandler(w)

(***************************************************************************)
(* Specifications.                                                         *)
(***************************************************************************)
Step(w) ==
    \/ StartDoc(w)
    \/ Extract(w)
    \/ ResolveBegin(w)
    \/ ResolveEnd(w)
    \/ ApplyMatch(w)
    \/ ApplyAdd(w)
    \/ NodeMatch(w)
    \/ NodeCreate(w)
    \/ RelMerge(w)

Fault(w) ==
    \/ StartMissing(w)
    \/ ExtractFail(w)
    \/ ResolveRaise(w)
    \/ ApplyAddFail(w)
    \/ NodeFail(w)
    \/ RelFail(w)
    \/ Abort(w)

\* the pool: workers run process_file concurrently, store and backend may fail
Next == \E w \in Workers : Step(w) \/ Fault(w)

Spec == Init /\ [][Next]_vars

\* the pool's threads and processes keep running: a worker that can go on does
SpecFair == Spec /\ \A w \in Workers : WF_vars(Step(w) \/ ResolveRaise(w))

\* one worker, no errors: the files of the batch one after another
InitSeq ==
    /\ mode = "threads"
    /\ batch \in [1..MaxDocs -> Subs \cup SubsSeq]
    /\ InitLocal

NextSeq == Step("w1")

SpecSeq == InitSeq /\ [][NextSeq]_vars

\* get_KG_from_text or a session.run never returns: no call of process_file or
\* execute_graph carries a timeout, and the driver is created without one
Hang(w) ==
    /\ pc[w] \in {"extract", "node", "create", "rel"}
    /\ faults < MaxFaults
    /\ faults' = faults + 1
    /\ pc' = [pc EXCEPT ![w] = "hung"]
    /\ UNCHANGED <<tvars, qvars, eprops, mode, batch, next, status, store, cache, nodes, edges, log,
                   cur, frag, idx, mapping, snap, res>>

NextHang == Next \/ \E w \in Workers : Hang(w)

\* the pool with calls that may block for ever
SpecHang ==
    Init /\ [][NextHang]_vars /\ \A w \in Workers : WF_vars(Step(w) \/ ResolveRaise(w))

\* one worker whose merge may be abandoned at any point; the file is submitted again
NextRetry == Step("w1") \/ Abort("w1")

SpecRetry == InitSeq /\ [][NextRetry]_vars

\* one worker, files whose names tie at the best ratio
InitTie ==
    /\ mode = "threads"
    /\ batch \in [1..MaxDocs -> SubsTie]
    /\ InitLocal

SpecTie == InitTie /\ [][NextSeq]_vars

(***************************************************************************)
(* RECALLOGUE, app/src/services/thread.py: ThreadService over the table    *)
(* threads.  Every service call is one committed transaction.              *)
(***************************************************************************)
kgvars == <<qvars, eprops, mode, batch, next, status, store, cache, nodes, edges, log, faults,
            cur, pc, frag, idx, mapping, snap, res>>

NoUser == 0               \* user_id is nullable
Users == {1, 2, NoUser}
ThreadNames == {"t1", "t2"}
NoThread == [id |-> 0]    \* get_by_id returns None

MaxId == 3                \* primary keys handed out
MaxClock == 2             \* distinct values of datetime.utcnow()
Limits == {1, 2, 100}     \* page sizes asked for; 100 is the default

\* INTEGER PRIMARY KEY of the default SQLite database: the largest id plus one
NewId == IF threads = {} THEN 1
         ELSE (CHOOSE r \in threads : \A q \in threads : q.id <= r.id).id + 1

\* ThreadService.create
ThreadCreate(u, n) ==
    /\ NewId <= MaxId
    /\ \E t \in {clock, clock + 1} :
           /\ t <= MaxClock
           /\ clock' = t
           /\ threads' = threads \cup
                  {[id |-> NewId, name |-> n, user_id |-> u, created_at |-> t]}
    /\ last' = [op |-> "create", id |-> NewId]
    /\ UNCHANGED kgvars

\* ThreadService.update: ThreadUpdate carries name and allowed_sources only
ThreadUpdate(i, n) ==
    /\ \E r \in threads :
           /\ r.id = i
           /\ threads' = (threads \ {r}) \cup {[r EXCEPT !.name = n]}
    /\ last' = [op |-> "update", id |-> i]
    /\ UNCHANGED <<clock, kgvars>>

\* ThreadService.delete of an existing thread
ThreadDelete(i) ==
    /\ \E r \in threads : r.id = i /\ threads' = threads \ {r}
    /\ last' = [op |-> "delete", id |-> i]
    /\ UNCHANGED <<clock, kgvars>>

\* ThreadService.delete, lines 115-116: HTTPException 404, nothing changes
ThreadDeleteMissing(i) ==
    /\ \A r \in threads : r.id # i
    /\ last' = [op |-> "delete404", id |-> i]
    /\ UNCHANGED <<threads, clock, kgvars>>

\* ThreadService.get_by_id / BaseRepository.get
get_by_id(i) ==
    IF \E r \in threads : r.id = i THEN CHOOSE r \in threads : r.id = i ELSE NoThread

\* the rows of S in every order the clause ORDER BY created_at DESC allows
OrderedByCreatedDesc(S) ==
    {s \in [1..Cardinality(S) -> S] :
        /\ \A j, k \in DOMAIN s : s[j] = s[k] => j = k
        /\ \A j, k \in DOMAIN s : j < k => s[j].created_at >= s[k].created_at}

\* OFFSET skip LIMIT limit
Page(s, skip, limit) ==
    SubSeq(s, skip + 1, IF skip + limit < Len(s) THEN skip + limit ELSE Len(s))

\* a query without the filter on user_id (as get_multi)
get_by_user_id_unfiltered(u, skip, limit) ==
    {Page(s, skip, limit) : s \in OrderedByCreatedDesc(threads)}

\* ThreadRepository.get_by_user_id: every list the query can return
get_by_user_id(u, skip, limit) ==
    {Page(s, skip, limit) : s \in OrderedByCreatedDesc({r \in threads : r.user_id = u})}

InitThreads ==
    /\ mode = "threads"
    /\ batch = [d \in 1..MaxDocs |-> Submission("G1", "doc1")]
    /\ InitLocal

NextThreads ==
    \/ \E u \in Users, n \in ThreadNames : ThreadCreate(u, n)
    \/ \E i \in 1..MaxId, n \in ThreadNames : ThreadUpdate(i, n)
    \/ \E i \in 1..MaxId : ThreadDelete(i)
    \/ \E i \in 1..MaxId : ThreadDeleteMissing(i)

SpecThreads == InitThreads /\ [][NextThreads]_vars

(***************************************************************************)
(* Claims.                                                                 *)
(***************************************************************************)
EdgeKeys == {EdgeKey(e) : e \in edges}

\* some worker processes a file that comes after a completed merge of the same fragment
Remerging ==
    \E w \in Workers :
        /\ cur[w] > 1
        /\ \A d \in 1..(cur[w] - 1) :
               status[d] = "done" /\ batch[d].frag = batch[cur[w]].frag

\* C1: merging the same fragment again (same, other or no source id), one merge
\* after the other and without any store error, changes neither the set of nodes
\* nor the set of edges.
C1_RemergeKeepsGraph ==
    [][Remerging => (nodes' = nodes /\ EdgeKeys' = EdgeKeys)]_vars

IsPrefix(s, t) == Len(s) <= Len(t) /\ SubSeq(t, 1, Len(s)) = s

\* worker w runs a relationship query in this step
RelStep(w) == pc[w] = "rel" /\ (idx'[w] # idx[w] \/ pc'[w] # pc[w])

\* C2: a merge changes the source list of an edge only by appending its own non-null
\* source id when the list does not hold it yet; a new edge starts with [src], or []
\* for no source id; no edge is dropped, no list shrinks, no list holds an id twice,
\* and there is one edge per (source node, type, target node).
C2_SourceListAppendOnly ==
    /\ [](\A e \in edges :
             /\ \A j, k \in 1..Len(e.source_files) :
                    e.source_files[j] = e.source_files[k] => j = k
             /\ \A f \in edges : EdgeKey(f) = EdgeKey(e) => f = e)
    /\ [][/\ \A e \in edges : \E e2 \in edges' :
                 EdgeKey(e2) = EdgeKey(e) /\ IsPrefix(e.source_files, e2.source_files)
          /\ \A e2 \in edges' :
                 \/ e2 \in edges
                 \/ \E w \in Workers :
                        /\ RelStep(w)
                        /\ \/ /\ \A e \in edges : EdgeKey(e) # EdgeKey(e2)
                              /\ e2.source_files =
                                     IF SrcOf(w) = NoSrc THEN <<>> ELSE <<SrcOf(w)>>
                           \/ \E e \in edges :
                                  /\ EdgeKey(e) = EdgeKey(e2)
                                  /\ SrcOf(w) # NoSrc
                                  /\ ~InList(SrcOf(w), e.source_files)
                                  /\ e2.source_files = Append(e.source_files, SrcOf(w))
         ]_vars

\* both files are merged and their common edge lists doc1, then doc2
C2_Witness ==
    /\ \E e \in edges : e.source_files = <<"doc1", "doc2">>
    /\ \A d \in DOMAIN status : status[d] = "done"

\* worker w runs the create of a node MERGE in this step
CreateStep(w) == pc[w] = "create" /\ pc'[w] # "create"

\* C3: no step removes or relabels an existing node (an upsert of an existing name
\* with another label changes nothing), and a node that appears carries the name
\* and the label of the entity upsert that created it.
C3_LabelImmutable ==
    /\ [](\A n \in nodes : \E k \in DOMAIN Fragment(batch[n.by].frag).entities :
             Fragment(batch[n.by].frag).entities[k].label = n.label)
    /\ [][/\ nodes \subseteq nodes'
          /\ \A n \in nodes' \ nodes :
                 \E w \in Workers :
                     /\ CreateStep(w)
                     /\ n.name = CurEntity(w).name
                     /\ n.label = CurEntity(w).label
                     /\ n.by = cur[w]
         ]_vars

\* a completed merge upserted an existing node's name with another label
C3_Witness ==
    \E n \in nodes, d \in DOMAIN batch :
        /\ d # n.by
        /\ status[d] = "done"
        /\ \E k \in DOMAIN Fragment(batch[d].frag).entities :
               LET e == Fragment(batch[d].frag).entities[k]
               IN  /\ normalize_name(e.name) = n.name
                   /\ e.label # n.label
                   /\ [doc |-> d, kind |-> "entity_ok", k |-> k] \in log
        /\ NodesNamed(n.name) = {n}

AllDone == \A d \in DOMAIN status : status[d] = "done"

\* C4: after the workers have merged their fragments concurrently, whatever the
\* interleaving of their graph-store calls, the graph holds one node per name and
\* one edge per (source name, type, target name).
C4_OneNodePerName ==
    AllDone =>
        /\ \A n1, n2 \in nodes : n1.name = n2.name => n1 = n2
        /\ \A e1, e2 \in edges :
               (e1.a[1] = e2.a[1] /\ e1.type = e2.type /\ e1.b[1] = e2.b[1]) => e1 = e2

\* C5: when two workers have each resolved-or-added a name with the same normalized
\* key (no store error), both name_mappings send it to the same key of the registry
\* store, and that key is in the cache of either worker.
C5_ConcurrentResolveConverges ==
    \A w1, w2 \in Workers :
        \A x1 \in DOMAIN mapping[w1], x2 \in DOMAIN mapping[w2] :
            (faults = 0 /\ w1 # w2 /\ normalize_name(x1) = normalize_name(x2)) =>
                /\ mapping[w1][x1] = mapping[w2][x2]
                /\ mapping[w1][x1] \in DOMAIN store
                /\ mapping[w1][x1] \in Cache(w1) \cap Cache(w2)

\* the registry's matching rule between a name and a stored name
RegistryMatch(a, b) ==
    \/ SubsetTable[a, b]
    \/ RatioGeq(RatioTable[a, b], ThresholdNum, ThresholdDen)

\* C6: in every reachable registry state no two distinct entries of the registry
\* store match each other under the registry's matching rule.
C6_NoMatchingEntries ==
    \A a, b \in DOMAIN store : a # b => ~RegistryMatch(a, b)

\* resolve(name) in the process of worker w, default threshold: every possible result
Resolve(x, w) == get_similar_entity(x, Cache(w), ThresholdNum, ThresholdDen)

\* tokens(normalize(A)) is a subset of tokens(normalize(B)), the shorter is longer than 3
SubsetPair(A, B) ==
    LET a == normalize_name(A)
        b == normalize_name(B)
    IN  /\ TokenSet(a) \subseteq TokenSet(b)
        /\ Len(IF Len(a) < Len(b) THEN a ELSE b) > MinSubsetLen

\* the pairs of names the claim is about, and their normalized forms
SubsetPairs == {p \in RawNames \X RawNames : SubsetPair(p[1], p[2])}
Norm == [x \in RawNames |-> normalize_name(x)] @@ <<>>

\* C7 as claimed: for such A and B, once either is registered, resolve(A) and
\* resolve(B) return the same key, whatever else the registry holds.
C7_SubsetPairResolvesAlike ==
    \A w \in Workers : \A p \in SubsetPairs :
        (Norm[p[1]] \in Cache(w) \/ Norm[p[2]] \in Cache(w))
        => \E k \in Cache(w) : Resolve(p[1], w) = {k} /\ Resolve(p[2], w) = {k}

\* exactly one of the two is registered and no other entry subset-matches either
OnlySubsetMatch(A, B, w) ==
    /\ (Norm[A] \in Cache(w)) # (Norm[B] \in Cache(w))
    /\ \A s \in Cache(w) \ {Norm[A], Norm[B]} :
           ~SubsetTable[Norm[A], s] /\ ~SubsetTable[Norm[B], s]

\* C7 amended: for such A and B, when exactly one of them is registered and no other
\* registry entry subset-matches either, resolve(A) and resolve(B) both return the
\* registered one, whatever else the registry holds.
C7_SubsetPairResolvesToRegistered ==
    \A w \in Workers : \A p \in SubsetPairs :
        OnlySubsetMatch(p[1], p[2], w)
        => \E k \in {Norm[p[1]], Norm[p[2]]} \cap Cache(w) :
               Resolve(p[1], w) = {k} /\ Resolve(p[2], w) = {k}

\* "abcde" is registered next to "fghi abcdh", which "fghi abcde" matches at ratio
\* 0.9 but not by tokens: "fghi abcde" resolves to "abcde"
C7_Witness ==
    \E w \in Workers :
        /\ <<nC, nB>> \in SubsetPairs /\ OnlySubsetMatch(nC, nB, w)
        /\ nA \in Cache(w)
        /\ RatioGeq(RatioTable[nB, nA], ThresholdNum, ThresholdDen)
        /\ Resolve(nB, w) = {nC}

\* C8: normalize_name gives a lowercase name without surrounding spaces and is
\* idempotent, and in every registry state two names with the same normalized form
\* have the same resolve results.
C8_ResolveThroughNormalize ==
    /\ \A x \in RawNames :
           /\ normalize_name(Norm[x]) = Norm[x]
           /\ \A i \in 1..Len(Norm[x]) : Norm[x][i] < UpperBase
           /\ Norm[x] # <<>> => (Head(Norm[x]) # Space /\ Norm[x][Len(Norm[x])] # Space)
    /\ \A w \in Workers : \A x, y \in RawNames :
           Norm[x] = Norm[y] => Resolve(x, w) = Resolve(y, w)

\* "abcde" was registered by an earlier file, and " ABCDE " of the file in hand was
\* mapped to it
C8_Witness ==
    \E w \in Workers :
        /\ cur[w] = 2 /\ status[1] = "done"
        /\ batch[1].frag = "G1" /\ batch[2].frag = "G2"
        /\ nCu \in DOMAIN mapping[w] /\ mapping[w][nCu] = nC
        /\ Resolve(nCu, w) = {nC} /\ Resolve(nC, w) = {nC}

Terminal(d) == status[d] \in {"done", "failed", "notfound"}

\* file d gets its failure in this step
FailStep(d) == ~Terminal(d) /\ status'[d] \in {"failed", "notfound"}

\* the worker that has file d in hand
Holder(d) == {w \in Workers : cur[w] = d}

\* C9: the step in which one file fails changes no other file's status, no other
\* worker's position or data and nothing of the registry and the graph (what was
\* merged stays), and the pool goes on handing out the files after it; every file
\* of the batch ends done, failed or not found.
C9_FailureIsolated ==
    /\ [][\A d \in DOMAIN status : FailStep(d) =>
             /\ \A e \in DOMAIN status \ {d} : status'[e] = status[e]
             /\ \A w \in Workers \ Holder(d) :
                    /\ cur'[w] = cur[w] /\ pc'[w] = pc[w] /\ frag'[w] = frag[w]
                    /\ idx'[w] = idx[w] /\ mapping'[w] = mapping[w]
                    /\ snap'[w] = snap[w] /\ res'[w] = res[w]
             /\ shared' = shared
             /\ next' = (IF d = next THEN next + 1 ELSE next)
         ]_vars
    /\ <>[](\A d \in DOMAIN status : Terminal(d))

\* the first file failed after it had written to the registry, the second one was
\* merged after that
C9_Witness ==
    /\ Len(batch) >= 2
    /\ status[1] = "failed" /\ status[2] = "done"
    /\ [doc |-> 2, kind |-> "rel_ok", k |-> 1] \in log
    /\ store # EmptyMap /\ edges # {}

\* an upsert of the file in hand failed on an endpoint of the current relationship,
\* and no node has that name
FailedEndpoint(w) ==
    \E k \in DOMAIN frag[w].entities :
        /\ [doc |-> cur[w], kind |-> "entity_err", k |-> k] \in log
        /\ frag[w].entities[k].name \in {CurRel(w).source, CurRel(w).target}
        /\ NodesNamed(frag[w].entities[k].name) = {}

\* C10: a relationship with an endpoint whose upsert failed (no node of that name)
\* creates no edge and is not reported as merged.
C10_FailedEndpointSkipped ==
    [][\A w \in Workers : (RelStep(w) /\ FailedEndpoint(w)) =>
          /\ edges' = edges
          /\ LogRec(w, "rel_ok", idx[w]) \notin log'
      ]_vars

\* an endpoint name of the current relationship of worker w has no node
MissingEndpoint(w) ==
    NodesNamed(CurRel(w).source) = {} \/ NodesNamed(CurRel(w).target) = {}

\* C11: in every state, between two store calls and after an abandoned file as
\* well, each edge joins two existing nodes; a relationship query creates no node,
\* and no edge when an endpoint name has no node.
C11_EdgesJoinNodes ==
    /\ [](\A e \in edges : \E a, b \in nodes : NodeId(a) = e.a /\ NodeId(b) = e.b)
    /\ [][\A w \in Workers : RelStep(w) =>
             /\ nodes' = nodes
             /\ MissingEndpoint(w) => edges' = edges
         ]_vars

\* the relationship query of the file doc2 ran after one of its upserts had failed
\* and left no trace in the graph; the graph holds an edge of another file
C11_Witness ==
    /\ edges # {}
    /\ \A e \in edges : ~InList("doc2", e.source_files)
    /\ \E d \in DOMAIN status :
           /\ status[d] = "done" /\ batch[d].src = "doc2"
           /\ [doc |-> d, kind |-> "rel_ok", k |-> 1] \in log
           /\ \E r \in log : r.doc = d /\ r.kind = "entity_err"

\* name_mapping of normalize_entity_names run alone on the cache c, for fragments
\* whose lookups have one possible result each
RECURSIVE MappingFrom(_, _, _, _)
MappingFrom(ents, k, c, m) ==
    IF k > Len(ents) THEN m
    ELSE LET r == CHOOSE x \in get_similar_entity(ents[k].name, c, ThresholdNum, ThresholdDen) : TRUE
             key == IF r = None THEN normalize_name(ents[k].name) ELSE r
         IN  MappingFrom(ents, k + 1, c \cup {key}, (ents[k].name :> key) @@ m)

\* the fragment execute_graph upserts when it runs on an empty registry
CleanFragment(f) ==
    Renamed(Fragment(f), MappingFrom(Fragment(f).entities, 1, {}, EmptyMap))

\* nodes and edges, by name, of one merge of f on an empty graph that never failed:
\* the first upsert of a name gives the label
CleanNodes(f) ==
    LET es == CleanFragment(f).entities
    IN  {[name |-> es[k].name, label |-> es[k].label] :
            k \in {j \in DOMAIN es : \A i \in 1..(j - 1) : es[i].name # es[j].name}}

CleanEdges(f, s) ==
    LET rs == CleanFragment(f).relationships
    IN  {[a |-> rs[k].source, type |-> rs[k].type, b |-> rs[k].target,
          source_files |-> on_create_source_files(s)] : k \in DOMAIN rs}

\* the graph by names
NamedNodes == {[name |-> n.name, label |-> n.label] : n \in nodes}
NamedEdges == {[a |-> e.a[1], type |-> e.type, b |-> e.b[1],
                source_files |-> e.source_files] : e \in edges}

\* the first file's merge was abandoned, the same fragment with the same source id
\* was merged again and that merge completed
Retried ==
    /\ Len(batch) = 2 /\ batch[1] = batch[2]
    /\ status[1] = "failed" /\ status[2] = "done"

\* C12: after a merge that was abandoned at any point and a second merge of the same
\* fragment with the same source id, the graph has exactly the nodes, edges and
\* source lists of one merge that never failed.
C12_RetryGivesCleanMerge ==
    Retried =>
        /\ NamedNodes = CleanNodes(batch[1].frag)
        /\ NamedEdges = CleanEdges(batch[1].frag, batch[1].src)

\* normalize_entity_names has returned the fragment of worker w
Returned(w) == pc[w] \in {"node", "create", "rel"}

\* the fragment of worker w as the backend returned it
Extracted(w) == Fragment(batch[cur[w]].frag)

\* entity names and relationship endpoints went through the one name_mapping
MappedThrough(w) ==
    /\ \A k \in DOMAIN frag[w].entities :
           frag[w].entities[k].name = mapping[w][Extracted(w).entities[k].name]
    /\ \A k \in DOMAIN frag[w].relationships :
           /\ frag[w].relationships[k].source = mapping[w][Extracted(w).relationships[k].source]
           /\ frag[w].relationships[k].target = mapping[w][Extracted(w).relationships[k].target]

\* C13 as claimed: in the returned fragment every entity name is a normalized key of
\* the registry, and entities and endpoints are rewritten through the same mapping.
C13_ResolvedNamesRegistered ==
    \A w \in Workers : Returned(w) =>
        /\ \A k \in DOMAIN frag[w].entities :
               /\ normalize_name(frag[w].entities[k].name) = frag[w].entities[k].name
               /\ frag[w].entities[k].name \in DOMAIN store
        /\ MappedThrough(w)

\* C13 amended: in the returned fragment every entity name is a normalized key that
\* is in the registry, or the normalized form of the extracted name when the add of
\* that name raised a storage error; entities and endpoints are rewritten through
\* the same mapping.
C13_ResolvedNamesRegisteredUnlessAddFailed ==
    \A w \in Workers : Returned(w) =>
        /\ \A k \in DOMAIN frag[w].entities :
               /\ normalize_name(frag[w].entities[k].name) = frag[w].entities[k].name
               /\ \/ frag[w].entities[k].name \in DOMAIN store
                  \/ /\ [doc |-> cur[w], kind |-> "add_err", k |-> k] \in log
                     /\ frag[w].entities[k].name = normalize_name(Extracted(w).entities[k].name)
        /\ MappedThrough(w)

\* a returned fragment whose relationship source was renamed to a key that is not
\* in the registry, because its add failed
C13_Witness ==
    \E w \in Workers :
        /\ Returned(w)
        /\ frag[w].relationships[1].source # Extracted(w).relationships[1].source
        /\ frag[w].relationships[1].source \notin DOMAIN store
        /\ frag[w].relationships[1].target \in DOMAIN store

\* worker w completes add_entity_to_db in this step (no error, not abandoned)
AddStep(w) ==
    /\ pc[w] = "apply" /\ res[w] = None
    /\ cur'[w] = cur[w] /\ log' = log
    /\ (idx'[w] # idx[w] \/ pc'[w] # pc[w])

\* C14: the registry store and every cache hold normalized names only, so one entry
\* per normalized name; an add inserts the normalized name when it is absent, and an
\* add of a name that is registered changes neither the store nor the cache.
C14_AddInsertsIfAbsent ==
    /\ [](/\ \A x \in DOMAIN store : normalize_name(x) = x
          /\ \A w \in Workers : \A x \in cache[w] : normalize_name(x) = x)
    /\ [][\A w \in Workers : AddStep(w) =>
             LET key == normalize_name(CurEntity(w).name)
             IN  /\ key \in DOMAIN store => store' = store
                 /\ key \in Cache(w) => cache' = cache
                 /\ DOMAIN store' = DOMAIN store \cup {key}
                 /\ cache' = [cache EXCEPT ![ProcOf(w)] = @ \cup {key}]
                 /\ \A x \in DOMAIN store : store'[x] = store[x]
         ]_vars

\* two worker processes have each added "abcde", one as "abcde" with description 1
\* and one as " ABCDE " with description 2: one row, with the first description
C14_Witness ==
    /\ mode = "procs"
    /\ nC \in cache["w1"] /\ nC \in cache["w2"]
    /\ \E d1, d2 \in DOMAIN batch : batch[d1].frag = "G1" /\ batch[d2].frag = "G2"
    /\ nC \in DOMAIN store /\ store[nC] # NoDesc
    /\ \A d \in DOMAIN status : status[d] = "done"

\* C15: once a registry entry has a description, no step of any worker (add,
\* description backfill, a merge carrying another description) changes it or
\* removes the entry.
C15_DescriptionFirstWriterWins ==
    [][\A x \in DOMAIN store : store[x] # NoDesc =>
          x \in DOMAIN store' /\ store'[x] = store[x]]_vars

\* G1 ("abcde", description 1) and G2 (" ABCDE ", description 2) are both merged,
\* and the entry "abcde" has description 1
C15_Witness ==
    /\ \A d \in DOMAIN status : status[d] = "done"
    /\ batch[1].frag = "G1" /\ batch[2].frag = "G2"
    /\ faults = 0 /\ mode = "threads"
    /\ store[nC] = 1

\* C16: an add with a description for a name that is registered without one
\* attaches the description to the existing entry.
C16_AddAttachesDescription ==
    [][\A w \in Workers :
          LET key == normalize_name(CurEntity(w).name)
          IN  (/\ AddStep(w)
               /\ key \in DOMAIN store /\ store[key] = NoDesc
               /\ CurEntity(w).description # NoDesc)
              => store'[key] = CurEntity(w).description
      ]_vars

\* the extraction of the file of worker w fails in this step
ExtractionFails(w) ==
    /\ pc[w] = "extract"
    /\ LogRec(w, "error", 0) \in log' \ log

\* C17: when the extraction of a file fails, the file is marked failed in that step,
\* registry (store and caches) and graph are unchanged, and the worker leaves the
\* file; a file that has ended is never taken up again.
C17_ExtractionFailureNoWrites ==
    /\ [][\A w \in Workers : ExtractionFails(w) =>
             /\ status'[cur[w]] = "failed"
             /\ shared' = shared
             /\ pc'[w] = "idle" /\ cur'[w] = 0
             /\ next' = next
         ]_vars
    /\ [][\A d \in DOMAIN status : Terminal(d) => status'[d] = status[d]]_vars

\* the first file failed before anything was written, the second file was merged
C17_Witness ==
    /\ status[1] = "failed" /\ status[2] = "done"
    /\ [doc |-> 1, kind |-> "error", k |-> 0] \in log
    /\ \A n \in nodes : n.by = 2
    /\ DOMAIN store = {normalize_name(Fragment(batch[2].frag).entities[k].name) :
                          k \in DOMAIN Fragment(batch[2].frag).entities}
    /\ batch[1].frag = "G3" /\ batch[2].frag = "G1"

\* a call made for file d has not returned
Hung(d) == \E w \in Workers : cur[w] = d /\ pc[w] = "hung"

\* C18: when a backend call or a graph-store call made for a file never returns, the
\* file is eventually reported failed and its worker released, and every file of
\* the batch eventually ends.
C18_HungCallTimesOut ==
    (\E d \in DOMAIN status : Hung(d))
        ~> (\A d \in DOMAIN status : Terminal(d) /\ ~Hung(d))

\* C19: after any sequence of creations, updates and deletions, every list that
\* get_by_user_id(u) can return holds only existing threads of u, each once, and all
\* of them up to the page limit; get_by_id returns the existing row of that id or
\* nothing, and nothing for the id of the thread just deleted.
C19_ThreadsByOwner ==
    /\ \A u \in Users, limit \in Limits : \A l \in get_by_user_id(u, 0, limit) :
           /\ \A k \in DOMAIN l : l[k] \in threads /\ l[k].user_id = u
           /\ \A j, k \in DOMAIN l : l[j] = l[k] => j = k
           /\ Len(l) = IF Cardinality({r \in threads : r.user_id = u}) < limit
                       THEN Cardinality({r \in threads : r.user_id = u}) ELSE limit
    /\ \A i \in 1..MaxId : get_by_id(i) = NoThread \/ (get_by_id(i) \in threads /\ get_by_id(i).id = i)
    /\ last.op = "delete" => get_by_id(last.id) = NoThread

\* a thread was just deleted; user 1 and user 2 have one thread each, created at the
\* same time
C19_Witness ==
    /\ last.op = "delete"
    /\ Cardinality({r \in threads : r.user_id = 1}) = 1
    /\ Cardinality({r \in threads : r.user_id = 2}) = 1
    /\ \E r1, r2 \in threads : r1.user_id = 1 /\ r2.user_id = 2 /\ r1.created_at = r2.created_at

\* C20: every result r of resolve for a name with normalized form n on a cache c:
\* n itself when n is registered; else, when some registered name subset-matches n,
\* one of those, whatever the ratios; else a registered name whose ratio reaches the
\* threshold and is exceeded by no registered name, or no match when none reaches it.
C20_ResolvePriority ==
    \A w \in Workers : \A x \in RawNames : \A r \in Resolve(x, w) :
        LET n == Norm[x]
            c == Cache(w)
            reaches(s) == RatioGeq(RatioTable[n, s], ThresholdNum, ThresholdDen)
        IN  IF n \in c THEN r = n
            ELSE IF \E s \in c : SubsetTable[n, s]
                 THEN r \in c /\ SubsetTable[n, r]
                 ELSE IF \E s \in c : reaches(s)
                      THEN /\ r \in c /\ reaches(r)
                           /\ \A t \in c : ~RatioGt(RatioTable[n, t], RatioTable[n, r])
                      ELSE r = None

\* "fghi abcde" was resolved to the subset match "abcde" while the registry also
\* holds "fghi abcdh", whose ratio 0.9 is higher and reaches the threshold
C20_Witness ==
    \E w \in Workers :
        /\ pc[w] = "apply" /\ CurEntity(w).name = nB /\ res[w] = nC
        /\ nB \notin Cache(w) /\ nA \in Cache(w)
        /\ RatioGeq(RatioTable[nB, nA], ThresholdNum, ThresholdDen)
        /\ RatioGt(RatioTable[nB, nA], RatioTable[nB, nC])

(***************************************************************************)
(* C21.  Ties of the best ratio.                                           *)
(***************************************************************************)
\* the normalized entity names of files 1..d in the order one worker resolves them
RECURSIVE SubmittedNames(_)
SubmittedNames(d) ==
    IF d = 0 THEN <<>>
    ELSE SubmittedNames(d - 1) \o
         [i \in 1..Len(Fragment(batch[d].frag).entities) |->
              normalize_name(Fragment(batch[d].frag).entities[i].name)]

\* the position of the first add of key x in a run of one worker
FirstPos(x) ==
    CHOOSE i \in 1..Len(SubmittedNames(Len(batch))) :
        /\ SubmittedNames(Len(batch))[i] = x
        /\ \A j \in 1..(i - 1) : SubmittedNames(Len(batch))[j] # x

first_inserted(T) == CHOOSE x \in T : \A y \in T : FirstPos(x) <= FirstPos(y)

\* the loop of get_similar_entity ended on a tie of the best ratio
TieStep(w) ==
    /\ pc[w] = "iter" /\ pc'[w] = "apply"
    /\ normalize_name(CurEntity(w).name) \notin Cache(w)
    /\ SubsetCandidates(normalize_name(CurEntity(w).name), Cache(w)) = {}
    /\ Cardinality(FuzzyCandidates(normalize_name(CurEntity(w).name), Cache(w),
                                   ThresholdNum, ThresholdDen)) > 1

\* C21: when several registered names tie at the best ratio (at or above the
\* threshold) and there is no exact or subset match, resolve returns the name that
\* was inserted into the registry first.
C21_TieResolvesToFirstInserted ==
    [][\A w \in Workers :
          TieStep(w) =>
              res'[w] = first_inserted(FuzzyCandidates(normalize_name(CurEntity(w).name),
                                                       Cache(w), ThresholdNum, ThresholdDen))
      ]_vars

\* the tie is reached: both tied names are registered and one of them is returned
C21_TieReached ==
    \E w \in Workers :
        /\ pc[w] = "apply"
        /\ normalize_name(CurEntity(w).name) = normalize_name(nC)
        /\ {normalize_name(nE), normalize_name(nF)} \subseteq Cache(w)
        /\ res[w] \in {normalize_name(nE), normalize_name(nF)}

(***************************************************************************)
(* C22.  The order of the steps of one merge pass.                         *)
(***************************************************************************)
\* a list that puts the relationship queries first
generate_cypher_rels_first(g) ==
    [k \in 1..Len(g.relationships) |-> [kind |-> "rel", k |-> k]] \o
    [k \in 1..Len(g.entities) |-> [kind |-> "node", k |-> k]]

\* BeltaScrapper generate_cypher: the list of queries, STEP 1 nodes, STEP 2 relationships
generate_cypher(g) ==
    [k \in 1..Len(g.entities) |-> [kind |-> "node", k |-> k]] \o
    [k \in 1..Len(g.relationships) |-> [kind |-> "rel", k |-> k]]

\* ReStoryTeller generate_cypher_queries: topic and article, entities, relationships
generate_cypher_queries(g) ==
    <<[kind |-> "topic_article", k |-> 1]>> \o
    [k \in 1..Len(g.entities) |-> [kind |-> "node", k |-> k]] \o
    [k \in 1..Len(g.relationships) |-> [kind |-> "rel", k |-> k]]

\* every node query of the list stands before every relationship query, none is missing
NodesBeforeRels(q, g) ==
    /\ \A i, j \in 1..Len(q) : (q[i].kind = "node" /\ q[j].kind = "rel") => i < j
    /\ \A k \in 1..Len(g.entities) : \E i \in 1..Len(q) : q[i] = [kind |-> "node", k |-> k]
    /\ \A k \in 1..Len(g.relationships) : \E i \in 1..Len(q) : q[i] = [kind |-> "rel", k |-> k]

\* execute_graph has issued a graph write for file d
GraphWritten(d) ==
    \/ \E n \in nodes : n.by = d
    \/ \E r \in log : r.doc = d /\ r.kind \in {"entity_ok", "entity_err", "rel_ok", "rel_err"}

RelIssued(d) == \E r \in log : r.doc = d /\ r.kind \in {"rel_ok", "rel_err"}

Resolving(d) == \E w \in Workers : cur[w] = d /\ pc[w] \in {"extract", "resolve", "iter", "apply"}

\* C22: within one merge pass the resolution of all entities of the fragment precedes
\* the first graph write, no relationship upsert is issued before the upsert of every
\* entity was attempted, and the query lists of generate_cypher and
\* generate_cypher_queries have the same order.
C22_MergePassOrdered ==
    /\ \A d \in 1..Len(batch) :
           /\ GraphWritten(d) => ~Resolving(d)
           /\ RelIssued(d) =>
                  \A k \in 1..Len(Fragment(batch[d].frag).entities) :
                      \E r \in log : r.doc = d /\ r.k = k /\ r.kind \in {"entity_ok", "entity_err"}
    /\ \A w \in Workers :
           /\ NodesBeforeRels(generate_cypher(frag[w]), frag[w])
           /\ NodesBeforeRels(generate_cypher_queries(frag[w]), frag[w])

\* a relationship of a fragment of two entities was upserted after a failed entity upsert
C22_Witness ==
    \E d \in 1..Len(batch) :
        /\ RelIssued(d)
        /\ \E r \in log : r.doc = d /\ r.kind = "entity_err"
        /\ Len(generate_cypher(Fragment(batch[d].frag))) = 3

(***************************************************************************)
(* C23.  The properties of a merged edge.                                  *)
(***************************************************************************)
\* the relationship query of worker w ran
MergeStep(w) == pc[w] = "rel" /\ LogRec(w, "rel_ok", idx[w]) \in log'

\* the edges the query of worker w matches or creates
MergedPairs(w) ==
    {<<NodeId(a), CurRel(w).type, NodeId(b)>> :
        a \in NodesNamed(CurRel(w).source), b \in NodesNamed(CurRel(w).target)}

\* a relationship of a submitted file whose query ran and which supplies v for key k
Supplied(ty, k, v) ==
    \E d \in 1..Len(batch) : \E j \in 1..Len(Fragment(batch[d].frag).relationships) :
        LET rel == Fragment(batch[d].frag).relationships[j]
        IN  /\ [doc |-> d, kind |-> "rel_ok", k |-> j] \in log'
            /\ rel.type = ty
            /\ k \in DOMAIN get_relationship_properties(rel)
            /\ get_relationship_properties(rel)[k] = v

\* C23: when an existing edge is merged again, every property the latest extraction
\* supplies takes the latest value, every other property keeps its value, created_at
\* keeps the value set at creation and updated_at is refreshed; with concurrent
\* merges of one edge every property holds a value written by one of the merges.
C23_EdgePropertiesLastWriterWins ==
    [][/\ \A w \in Workers :
              MergeStep(w) =>
                  \A p \in MergedPairs(w) \cap DOMAIN eprops :
                      LET props == get_relationship_properties(CurRel(w))
                      IN  /\ \A k \in DOMAIN props : eprops'[p].props[k] = props[k]
                          /\ \A k \in DOMAIN eprops[p].props \ DOMAIN props :
                                 /\ k \in DOMAIN eprops'[p].props
                                 /\ eprops'[p].props[k] = eprops[p].props[k]
                          /\ eprops'[p].created_at = eprops[p].created_at
                          /\ eprops'[p].updated_at = Now
                          /\ eprops'[p].updated_at > eprops[p].updated_at
       /\ \A p \in DOMAIN eprops' : \A k \in DOMAIN eprops'[p].props :
              Supplied(p[2], k, eprops'[p].props[k])
       /\ DOMAIN eprops' = {EdgeKey(e) : e \in edges'}
      ]_vars

\* an edge created from G1 was merged again from G2: the date is G2's, the context G1's
C23_Witness ==
    \E p \in DOMAIN eprops :
        /\ eprops[p].props = [date |-> 2, context |-> 1]
        /\ eprops[p].updated_at > eprops[p].created_at

(***************************************************************************)
(* C24.  A lookup concurrent with an insert.                               *)
(***************************************************************************)
\* the loop of get_similar_entity of worker w was left by an exception of the iterator
RaisedInLoop(w) == pc[w] = "iter" /\ pc'[w] = "idle" /\ faults' = faults

\* C24: a get_similar_entity that runs in one thread while another thread inserts a
\* name into the shared cache completes without raising, and its result is a correct
\* result for the cache before or after that insert.
C24_ConcurrentResolveCompletes ==
    [][\A w \in Workers :
          /\ ~RaisedInLoop(w)
          /\ (pc[w] = "iter" /\ pc'[w] = "apply") =>
                 \E c \in SUBSET Cache(w) :
                     /\ Cardinality(c) >= snap[w]
                     /\ res'[w] \in get_similar_entity(CurEntity(w).name, c,
                                                       ThresholdNum, ThresholdDen)
      ]_vars

\* a thread is inside the loop and the cache has grown since the loop began
C24_InsertDuringLoop ==
    \E w \in Workers :
        /\ mode = "threads"
        /\ pc[w] = "iter"
        /\ Cardinality(Cache(w)) > snap[w]

(***************************************************************************)
(* get_relevant_context, and the two registries of parse.py.               *)
(***************************************************************************)
\* parse.py, line 30: normalizer = EntityNameNormalizer().  Its entity_cache is
\* loaded once by __init__ from entities.db as it is at import (Init: empty), and
\* nothing adds to it: execute_graph writes through neo.entity_normalizer.
ContextCache(w) == {}

\* detect_names: the names found in the text are those the backend extracts
DetectedNames(d) ==
    [k \in 1..Len(Fragment(batch[d].frag).entities) |-> Fragment(batch[d].frag).entities[k].name]

\* the keys of the dict normalized_inputs, in the order of first occurrence
RECURSIVE DistinctNames(_)
DistinctNames(names) ==
    IF names = <<>> THEN <<>>
    ELSE LET front == DistinctNames(SubSeq(names, 1, Len(names) - 1))
             x == names[Len(names)]
         IN  IF \E i \in 1..Len(front) : front[i] = x THEN front ELSE Append(front, x)

\* one element of results; row[0] if row and row[0] else None
ContextEntry(name, m, st) ==
    [original_name |-> name, matched_name |-> m,
     description |-> IF m \in DOMAIN st THEN st[m] ELSE NoDesc]

\* the loop over normalized_inputs: every list of results the call can return
RECURSIVE ContextLoop(_, _, _, _, _)
ContextLoop(ns, c, st, tn, td) ==
    IF ns = <<>> THEN {<<>>}
    ELSE LET x == ns[Len(ns)]
             before == ContextLoop(SubSeq(ns, 1, Len(ns) - 1), c, st, tn, td)
         IN  UNION {{IF m # None /\ m # <<>>
                     THEN Append(r, ContextEntry(x, m, st))
                     ELSE r : m \in get_similar_entity(x, c, tn, td)} : r \in before}

\* a lookup with one entry per occurrence of a name
get_relevant_context_per_occurrence(names, c, st, tn, td) ==
    ContextLoop(names, c, st, tn, td)

get_relevant_context(names, c, st, tn, td) ==
    ContextLoop(DistinctNames(names), c, st, tn, td)

(***************************************************************************)
(* C25.  Read-your-writes.                                                 *)
(***************************************************************************)
\* process_file of worker w runs detect_names, get_relevant_context, get_KG_from_text
LookupStep(w) == pc[w] = "extract" /\ pc'[w] = "resolve"

\* the lookup of process_file finds the name x of its file
ContextFinds(w, x) ==
    \A r \in get_relevant_context(DetectedNames(cur[w]), ContextCache(w), store,
                                  ThresholdNum, ThresholdDen) :
        \E i \in 1..Len(r) : r[i].original_name = x

\* the resolve of normalize_entity_names finds every name inserted in its process
ResolveFindsInserted ==
    \A w \in Workers : \A x \in RawNames :
        normalize_name(x) \in Cache(w) =>
            get_similar_entity(x, Cache(w), ThresholdNum, ThresholdDen) = {normalize_name(x)}

\* C25: after a worker's insert of a name has succeeded, every later resolve of that
\* name in the same process finds it, including the context lookup that process_file
\* performs for documents processed afterwards.
C25_ReadYourWrites ==
    [][/\ ResolveFindsInserted'
       /\ \A w \in Workers :
              LookupStep(w) =>
                  \A k \in 1..Len(DetectedNames(cur[w])) :
                      normalize_name(DetectedNames(cur[w])[k]) \in Cache(w)
                          => ContextFinds(w, DetectedNames(cur[w])[k])
      ]_vars

\* a file is looked up after an earlier file of the same process registered its name
C25_LookupAfterInsert ==
    \E w \in Workers :
        /\ pc[w] = "extract"
        /\ \E k \in 1..Len(DetectedNames(cur[w])) :
               normalize_name(DetectedNames(cur[w])[k]) \in Cache(w)
        /\ \E d \in 1..Len(batch) : status[d] = "done"

(***************************************************************************)
(* C26.  Visibility between worker processes.                              *)
(***************************************************************************)
\* apply_to_all_files when no two files overlap: a process of the pool takes the next
\* file only after the file before it was finished by whichever process had it
InitPool ==
    /\ mode = "procs"
    /\ batch \in [1..MaxDocs -> Subs \cup SubsSeq]
    /\ InitLocal

NextPool == \E w \in Workers : (\A v \in Workers \ {w} : pc[v] = "idle") /\ Step(w)

SpecPool == InitPool /\ [][NextPool]_vars

\* the rows of the backing store that the name x matches exactly or as a subset
StoredMatches(x) ==
    {s \in DOMAIN store : s = normalize_name(x) \/ SubsetTable[normalize_name(x), s]}

\* C26: a name inserted by one worker process becomes visible to the resolves of
\* every other worker process through the backing store: a later resolve of that name
\* or of a subset variant of it returns the stored name and registers no new entry.
C26_CrossProcessVisible ==
    [][\A w \in Workers :
          (pc[w] \in {"resolve", "iter"} /\ pc'[w] = "apply"
              /\ StoredMatches(CurEntity(w).name) # {})
                 => res'[w] \in StoredMatches(CurEntity(w).name)
      ]_vars

\* a process resolves a name that an earlier file, handled by the other process, stored
C26_ResolveAfterOtherProcess ==
    \E w \in Workers :
        /\ pc[w] = "apply"
        /\ StoredMatches(CurEntity(w).name) # {}
        /\ StoredMatches(CurEntity(w).name) \cap Cache(w) = {}

(***************************************************************************)
(* C27.  A store failure during an add.                                    *)
(***************************************************************************)
\* the registry store fails while worker w is inside add_entity_to_db
StoreFailsDuringAdd(w) ==
    /\ pc[w] = "apply" /\ res[w] = None
    /\ faults' = faults + 1
    /\ (pc'[w] # pc[w] \/ idx'[w] # idx[w])

\* the failure was caught inside add_entity_to_db and the loop over the entities goes on
AddFailureAbsorbed(w) ==
    /\ LogRec(w, "add_err", idx[w]) \in log'
    /\ store' = store /\ cache' = cache
    /\ cur'[w] = cur[w] /\ status' = status
    /\ \/ pc'[w] = "resolve" /\ idx'[w] = idx[w] + 1
       \/ pc'[w] = "node" /\ Returned(w)'

\* C27: when the registry store fails during an add inside normalize_entity_names,
\* the error is caught and logged, the name is not put into the cache and no row is
\* written, and normalize_entity_names resolves the remaining entities and returns
\* the fragment instead of raising.
C27_AddFailureAbsorbed ==
    [][\A w \in Workers : StoreFailsDuringAdd(w) => AddFailureAbsorbed(w)]_vars

\* a failed statement of add_entity_to_db was absorbed: the file went on and is done
C27_AbsorbedReached ==
    \E r \in log :
        /\ r.kind = "add_err"
        /\ status[r.doc] = "done"
        /\ normalize_name(Fragment(batch[r.doc].frag).entities[r.k].name) \notin DOMAIN store

(***************************************************************************)
(* The text of the queries: _sanitize, _sanitize_for_cypher and the places *)
(* where a label or a relationship type is put into the query text.        *)
(* Characters beyond the names' alphabet:                                  *)
(***************************************************************************)
Underscore == 20
Quote == 30               \* '
Backslash == 31
Backtick == 32
Hyphen == 33              \* also the minus sign
Digit0 == 60              \* "0".."9" are 60..69
chr_l == 41
chr_n == 42
chr_o == 43
chr_r == 44
chr_s == 45
chr_t == 46
chr_u == 47

LowerLetters == (1..9) \cup (chr_l..chr_u)
IsLetter(c) == c \in LowerLetters \/ (c - UpperBase) \in LowerLetters
IsDigit(c) == c \in Digit0..(Digit0 + 9)

UpperChar(c) == IF c \in LowerLetters THEN c + UpperBase ELSE c
Upper(s) == [i \in 1..Len(s) |-> UpperChar(s[i])]

kw_true == <<chr_t, chr_r, chr_u, 5>>
kw_false == <<6, 1, chr_l, chr_s, 5>>
kw_null == <<chr_n, chr_u, chr_l, chr_l>>
RELATED_TO == Upper(<<chr_r, 5, chr_l, 1, chr_t, 5, 4>>) \o <<Underscore>> \o Upper(<<chr_t, chr_o>>)

\* str.replace("'", "\\'"): every quote gets a backslash in front
RECURSIVE ReplaceQuotes(_)
ReplaceQuotes(s) ==
    IF s = <<>> THEN <<>>
    ELSE (IF Head(s) = Quote THEN <<Backslash, Quote>> ELSE <<Head(s)>>) \o ReplaceQuotes(Tail(s))

\* str(val) of an int
RECURSIVE DecimalText(_)
DecimalText(k) ==
    IF k < 0 THEN <<Hyphen>> \o DecimalText(-k)
    ELSE IF k < 10 THEN <<Digit0 + k>>
    ELSE DecimalText(k \div 10) \o <<Digit0 + (k % 10)>>

\* values are [t, s, n]: "str" with the text s; "bool" with n in {0, 1}; "none";
\* "int" with the number n
StrValue(s) == [t |-> "str", s |-> s, n |-> 0]

\* _sanitize.  safe_str.lower() has no effect: its result is dropped.
sanitize(v) ==
    IF v.t = "str" THEN <<Quote>> \o ReplaceQuotes(v.s) \o <<Quote>>
    ELSE IF v.t = "bool" THEN (IF v.n = 1 THEN kw_true ELSE kw_false)
    ELSE IF v.t = "none" THEN kw_null
    ELSE DecimalText(v.n)

\* re.sub(r'[^a-zA-Z0-9_]', '_', text)
SubNonWord(s) ==
    [i \in 1..Len(s) |-> IF IsLetter(s[i]) \/ IsDigit(s[i]) \/ s[i] = Underscore
                         THEN s[i] ELSE Underscore]

\* re.sub(r'_+', '_', clean)
RECURSIVE CollapseUnderscores(_)
CollapseUnderscores(s) ==
    IF Len(s) <= 1 THEN s
    ELSE IF s[1] = Underscore /\ s[2] = Underscore THEN CollapseUnderscores(Tail(s))
    ELSE <<s[1]>> \o CollapseUnderscores(Tail(s))

\* .strip('_')
RECURSIVE StripUnderscores(_)
StripUnderscores(s) ==
    IF s = <<>> THEN s
    ELSE IF Head(s) = Underscore THEN StripUnderscores(Tail(s))
    ELSE IF s[Len(s)] = Underscore THEN StripUnderscores(SubSeq(s, 1, Len(s) - 1))
    ELSE s

\* ReStoryTeller _sanitize_for_cypher
sanitize_for_cypher(text) ==
    IF text = <<>> THEN RELATED_TO
    ELSE LET clean == Upper(StripUnderscores(CollapseUnderscores(SubNonWord(text))))
         IN  IF clean # <<>> THEN clean ELSE RELATED_TO

\* the label or type as each merge path writes it into the query text
\* execute_graph: ON CREATE SET n:`%s` % entity.label, MERGE (a)-[r:`{rel.type}`]->(b)
label_in_execute_graph(l) == l
\* generate_cypher: ON CREATE SET n:{entity.label}, MERGE (a)-[r:{rel.type}]->(b)
label_in_generate_cypher(l) == l
\* generate_cypher_queries: safe_label = self._sanitize_for_cypher(entity.label)
label_in_generate_cypher_queries(l) == sanitize_for_cypher(l)

MaxText == 3              \* characters of a value, label or type
MaxInt == 12
TextChars == {1, 12, Space, Underscore, Digit0 + 1, Quote, Backslash, Backtick}
Texts == UNION {[1..k -> TextChars] : k \in 0..MaxText}
Values ==
    {StrValue(s) : s \in Texts}
        \cup {[t |-> "bool", s |-> <<>>, n |-> b] : b \in {0, 1}}
        \cup {[t |-> "none", s |-> <<>>, n |-> 0]}
        \cup {[t |-> "int", s |-> <<>>, n |-> k] : k \in (-1)..MaxInt}

ingest == <<mode, batch, next, status, store, cache, nodes, edges, log, faults,
            cur, pc, frag, idx, mapping, snap, res, eprops>>

\* a value, label or type of a fragment reaches the query builder
NewValue ==
    /\ val = NoValue \/ qtext # NoText
    /\ \E v \in Values : val' = v
    /\ qtext' = NoText
    /\ UNCHANGED <<tvars, ingest>>

Sanitize ==
    /\ val # NoValue
    /\ qtext' = [op |-> "_sanitize", text |-> sanitize(val)]
    /\ UNCHANGED <<tvars, ingest, val>>

ExecuteGraphLabel ==
    /\ val.t = "str"
    /\ qtext' = [op |-> "execute_graph", text |-> label_in_execute_graph(val.s)]
    /\ UNCHANGED <<tvars, ingest, val>>

GenerateCypherLabel ==
    /\ val.t = "str"
    /\ qtext' = [op |-> "generate_cypher", text |-> label_in_generate_cypher(val.s)]
    /\ UNCHANGED <<tvars, ingest, val>>

GenerateCypherQueriesLabel ==
    /\ val.t = "str"
    /\ qtext' = [op |-> "generate_cypher_queries",
                 text |-> label_in_generate_cypher_queries(val.s)]
    /\ UNCHANGED <<tvars, ingest, val>>

InitCypher ==
    /\ mode = "threads"
    /\ batch = <<>>
    /\ InitLocal

NextCypher ==
    \/ NewValue
    \/ Sanitize
    \/ ExecuteGraphLabel
    \/ GenerateCypherLabel
    \/ GenerateCypherQueriesLabel

SpecCypher == InitCypher /\ [][NextCypher]_vars

(***************************************************************************)
(* C28.  String literals.                                                  *)
(***************************************************************************)
\* the reader of a single-quoted literal: a backslash takes the next character with
\* it, the first quote without a backslash ends the literal.  ok: the literal ends
\* with the last character of the text.  An escape other than \' and \\ is kept as
\* it stands.
RECURSIVE ReadFrom(_, _, _)
ReadFrom(t, i, acc) ==
    IF i > Len(t) THEN [ok |-> FALSE, value |-> acc]
    ELSE IF t[i] = Quote THEN [ok |-> i = Len(t), value |-> acc]
    ELSE IF t[i] = Backslash
         THEN IF i = Len(t) THEN [ok |-> FALSE, value |-> acc]
              ELSE IF t[i + 1] \in {Quote, Backslash}
                   THEN ReadFrom(t, i + 2, Append(acc, t[i + 1]))
                   ELSE ReadFrom(t, i + 2, acc \o <<t[i], t[i + 1]>>)
         ELSE ReadFrom(t, i + 1, Append(acc, t[i]))

ReadLiteral(t) ==
    IF t = <<>> \/ t[1] # Quote THEN [ok |-> FALSE, value |-> <<>>]
    ELSE ReadFrom(t, 2, <<>>)

\* int(text)
RECURSIVE ParseDecimal(_)
ParseDecimal(t) ==
    IF t = <<>> THEN 0
    ELSE IF Head(t) = Hyphen THEN 0 - ParseDecimal(Tail(t))
    ELSE 10 * ParseDecimal(SubSeq(t, 1, Len(t) - 1)) + (t[Len(t)] - Digit0)

\* C28: for every input string _sanitize returns one well-formed single-quoted
\* literal that no character of the input ends early, so the literal decodes back to
\* the input; booleans are rendered as true / false, None as null, numbers as their
\* decimal text.
C28_SanitizeRoundTrip ==
    qtext.op = "_sanitize" =>
        /\ val.t = "str" => /\ ReadLiteral(qtext.text).ok
                            /\ ReadLiteral(qtext.text).value = val.s
        /\ val.t = "bool" => qtext.text = (IF val.n = 1 THEN kw_true ELSE kw_false)
        /\ val.t = "none" => qtext.text = kw_null
        /\ val.t = "int" => /\ qtext.text # <<>>
                            /\ \A i \in 1..Len(qtext.text) :
                                   IsDigit(qtext.text[i]) \/ (i = 1 /\ qtext.text[i] = Hyphen)
                            /\ ParseDecimal(qtext.text) = val.n

\* a string with a quote went through _sanitize
C28_QuoteEscaped ==
    /\ qtext.op = "_sanitize"
    /\ val.t = "str"
    /\ \E i \in 1..Len(val.s) : val.s[i] = Quote
    /\ ReadLiteral(qtext.text).ok
    /\ ReadLiteral(qtext.text).value = val.s

(***************************************************************************)
(* C29.  Labels and relationship types in the query text.                  *)
(***************************************************************************)
IsWord(t) ==
    /\ t # <<>>
    /\ \A i \in 1..Len(t) : IsLetter(t[i]) \/ IsDigit(t[i]) \/ t[i] = Underscore
    /\ \A i \in 1..(Len(t) - 1) : ~(t[i] = Underscore /\ t[i + 1] = Underscore)

\* C29: every label and relationship type that execute_graph, generate_cypher or
\* generate_cypher_queries places into query text is non-empty and consists of
\* letters, digits and underscores only (invalid characters replaced by an underscore,
\* repeats collapsed, RELATED_TO when nothing valid is left), and cleansing twice
\* gives the same as cleansing once.
C29_LabelsCleansed ==
    /\ qtext.op \in {"execute_graph", "generate_cypher", "generate_cypher_queries"}
           => IsWord(qtext.text)
    /\ val.t = "str" =>
           sanitize_for_cypher(sanitize_for_cypher(val.s)) = sanitize_for_cypher(val.s)

\* generate_cypher_queries wrote a label that had an invalid character
C29_CleansedReached ==
    /\ qtext.op = "generate_cypher_queries"
    /\ \E i \in 1..Len(val.s) : val.s[i] \in {Space, Backtick, Quote}
    /\ IsWord(qtext.text)
    /\ qtext.text # RELATED_TO

(***************************************************************************)
(* C30.  The context lookup.                                               *)
(***************************************************************************)
MaxNames == 3             \* names in one call of get_relevant_context
CtxNames == {nC, nCu, nD, nE}
NameLists == UNION {[1..k -> CtxNames] : k \in 0..MaxNames}
Thresholds == {<<ThresholdNum, ThresholdDen>>, <<1, 1>>}

\* get_similar_entity finds a name for x
ResolveMatches(x, c, tn, td) == get_similar_entity(x, c, tn, td) # {None}

\* a list of results is right for the names, the cache c and the store st
ContextRight(r, names, c, st, tn, td) ==
    /\ \A k \in 1..Len(names) :
           Cardinality({i \in 1..Len(r) : r[i].original_name = names[k]})
               = IF ResolveMatches(names[k], c, tn, td) THEN 1 ELSE 0
    /\ \A i \in 1..Len(r) :
           /\ \E k \in 1..Len(names) : names[k] = r[i].original_name
           /\ r[i].matched_name \in get_similar_entity(r[i].original_name, c, tn, td)
           /\ r[i].matched_name \in c
           /\ r[i].matched_name \in DOMAIN st
           /\ r[i].description = st[r[i].matched_name]

\* C30: get_relevant_context returns exactly one entry for each distinct input name
\* that get_similar_entity matches at the given threshold and none for a name that
\* does not match; the matched name of each entry is a key held by the registry; the
\* call changes neither the registry store nor the cache.
C30_ContextLookup ==
    [][/\ \A w \in Workers : \A names \in NameLists : \A th \in Thresholds :
              \A c \in {ContextCache(w), Cache(w)} :
                  \A r \in get_relevant_context(names, c, store, th[1], th[2]) :
                      ContextRight(r, names, c, store, th[1], th[2])
       /\ \A w \in Workers : LookupStep(w) => store' = store /\ cache' = cache
      ]_vars

\* a lookup on a filled registry: a name given twice has one entry, an unknown name none
C30_Witness ==
    \E w \in Workers :
        /\ Cache(w) # {}
        /\ ~ResolveMatches(nE, Cache(w), ThresholdNum, ThresholdDen)
        /\ \E r \in get_relevant_context(<<nD, nE, nD>>, Cache(w), store,
                                         ThresholdNum, ThresholdDen) :
               Len(r) = 1 /\ r[1].original_name = nD
        /\ \E v \in Workers : pc[v] = "resolve" /\ cur[v] = 2

=============================================================================
